---- MODULE Spec2Model ----
(***************************************************************************)
(* Model of src/index.tsx of bookmarks-search: the Raycast command that    *)
(* locates a Chromium browser's Bookmarks file, reads it, parses it as     *)
(* JSON, flattens the bookmark tree and publishes the result through React *)
(* state.  fetchBookmarks is an async function: it yields at every await   *)
(* (fs.access per candidate, fs.readFile), so invocations started for      *)
(* successive selections interleave at those points.                        *)
(***************************************************************************)
EXTENDS Integers, Sequences, FiniteSets, TLC

VARIABLES
    platform,         \* process.platform
    localAppData,     \* process.env.LOCALAPPDATA as path segments, <<>> when unset
    fs,               \* the file system: candidate path -> file entry
    selectedBrowser,  \* useState<BrowserType>("chrome")
    bookmarks,        \* useState<BookmarkItem[]>([])
    isLoading,        \* useState(true)
    error,            \* useState<string | null>(null)
    permissionIssue,  \* useState(false)
    toast,            \* title of the last showToast call
    fetches           \* the invocations of fetchBookmarks, in order of issue

vars == <<platform, localAppData, fs, selectedBrowser, bookmarks, isLoading,
          error, permissionIssue, toast, fetches>>

(***************************************************************************)
(* Bounds of the model.                                                     *)
(***************************************************************************)
\* Invocations of fetchBookmarks in one session (mount + selection changes).
MaxFetches == 3
\* Nodes below the root containers in a generated bookmark document.
MaxNodes == 3

(***************************************************************************)
(* JavaScript values as far as the bookmark file needs them: strings,      *)
(* null, arrays, objects, and undefined for an absent property.            *)
(***************************************************************************)
Undefined == [t |-> "undefined"]
Null == [t |-> "null"]
S(s) == [t |-> "str", s |-> s]
Arr(a) == [t |-> "arr", a |-> a]
Obj(o) == [t |-> "obj", o |-> o]

\* v.key : a property read on a value that is neither null nor undefined.
Get(v, key) ==
    IF v.t = "obj" /\ key \in DOMAIN v.o THEN v.o[key] ELSE Undefined

\* v?.key
OptGet(v, key) ==
    IF v.t \in {"null", "undefined"} THEN Undefined ELSE Get(v, key)

\* Boolean(v): "" , null and undefined are falsy; objects and arrays truthy.
Truthy(v) ==
    \/ v.t \in {"obj", "arr"}
    \/ v.t = "str" /\ v.s # ""

(***************************************************************************)
(* Text.  A JavaScript string that the program builds or searches is a     *)
(* sequence of chunks; concatenation is \o and the empty string is <<>>.   *)
(* String.prototype.includes is decided on chunks: every marker the code   *)
(* searches for is a chunk of its own wherever it occurs.                   *)
(***************************************************************************)
Str(s) == IF s = "" THEN <<>> ELSE <<s>>

Includes(msg, needle) == \E k \in DOMAIN msg : msg[k] = needle

(***************************************************************************)
(* The file text is a sequence of JSON tokens.                              *)
(***************************************************************************)
P(s) == [k |-> "p", s |-> s]
StrTok(s) == [k |-> "s", s |-> s]
NullTok == [k |-> "n", s |-> "null"]

NoParse(at) == [ok |-> FALSE, val |-> Undefined, next |-> at]
Parsed(v, n) == [ok |-> TRUE, val |-> v, next |-> n]

RECURSIVE ParseValue(_, _), ParseMembers(_, _, _), ParseElements(_, _, _)

\* One JSON value starting at token i.
ParseValue(toks, i) ==
    IF i > Len(toks) THEN NoParse(i)
    ELSE LET tk == toks[i] IN
         CASE tk.k = "s" -> Parsed(S(tk.s), i + 1)
           [] tk.k = "n" -> Parsed(Null, i + 1)
           [] tk = P("{") ->
                IF i + 1 <= Len(toks) /\ toks[i + 1] = P("}")
                THEN Parsed(Obj(<<>>), i + 2)
                ELSE ParseMembers(toks, i + 1, <<>>)
           [] tk = P("[") ->
                IF i + 1 <= Len(toks) /\ toks[i + 1] = P("]")
                THEN Parsed(Arr(<<>>), i + 2)
                ELSE ParseElements(toks, i + 1, <<>>)
           [] OTHER -> NoParse(i)

\* "key" : value { , "key" : value } "}" ; a repeated key keeps the last value.
ParseMembers(toks, i, acc) ==
    IF i > Len(toks) THEN NoParse(i)
    ELSE IF toks[i].k # "s" THEN NoParse(i)
    ELSE IF i + 1 > Len(toks) THEN NoParse(i + 1)
    ELSE IF toks[i + 1] # P(":") THEN NoParse(i + 1)
    ELSE LET r == ParseValue(toks, i + 2)
             acc2 == (toks[i].s :> r.val) @@ acc
         IN  IF ~r.ok THEN r
             ELSE IF r.next > Len(toks) THEN NoParse(r.next)
             ELSE IF toks[r.next] = P("}") THEN Parsed(Obj(acc2), r.next + 1)
             ELSE IF toks[r.next] = P(",") THEN ParseMembers(toks, r.next + 1, acc2)
             ELSE NoParse(r.next)

\* value { , value } "]"
ParseElements(toks, i, acc) ==
    LET r == ParseValue(toks, i)
        acc2 == Append(acc, r.val)
    IN  IF ~r.ok THEN r
        ELSE IF r.next > Len(toks) THEN NoParse(r.next)
        ELSE IF toks[r.next] = P("]") THEN Parsed(Arr(acc2), r.next + 1)
        ELSE IF toks[r.next] = P(",") THEN ParseElements(toks, r.next + 1, acc2)
        ELSE NoParse(r.next)

SyntaxErrorMsg(text, at) ==
    IF at > Len(text) THEN <<"Unexpected end of JSON input">>
    ELSE <<"Unexpected token in JSON">>

\* JSON.parse(data): the value, or a SyntaxError.
JSONparse(text) ==
    LET r == ParseValue(text, 1) IN
    IF r.ok /\ r.next = Len(text) + 1
    THEN [threw |-> FALSE, val |-> r.val, msg |-> <<>>]
    ELSE [threw |-> TRUE, val |-> Undefined,
          msg |-> SyntaxErrorMsg(text, r.next)]

(***************************************************************************)
(* Step 3 of fetchBookmarks: the flattening of the parsed document.        *)
(***************************************************************************)
RootKeys == <<"bookmark_bar", "other", "synced">>

\* [json.roots?.bookmark_bar, json.roots?.other, json.roots?.synced]
\*   .filter(Boolean); json is not null here.
Roots(json) ==
    LET all == [k \in 1..Len(RootKeys) |-> OptGet(Get(json, "roots"), RootKeys[k])]
    IN  SelectSeq(all, Truthy)

\* The BookmarkItem pushed for a url node.
Item(node, folderPath, foundProfile) ==
    [id |-> Get(node, "id"), title |-> Get(node, "name"), url |-> Get(node, "url"),
     path |-> folderPath, source |-> foundProfile]

\* A path built with the folder's name in front of the carried path.
NewPathPrepending(folderPath, node) ==
    LET name == Get(node, "name")
        text == IF name.t = "str" THEN Str(name.s) ELSE <<"undefined">>
    IN  IF folderPath # <<>> THEN text \o <<" / ">> \o folderPath ELSE text

\* folderPath ? `${folderPath} / ${node.name}` : node.name
\* (name is a string: interface BookmarkNode).
NewPath(folderPath, node) ==
    LET name == Get(node, "name")
        text == IF name.t = "str" THEN Str(name.s) ELSE <<"undefined">>
    IN  IF folderPath # <<>> THEN folderPath \o <<" / ">> \o text ELSE text

NoThrow(items) == [threw |-> FALSE, items |-> items, msg |-> <<>>]
Throw(msg) == [threw |-> TRUE, items |-> <<>>, msg |-> msg]

RECURSIVE traverse(_, _, _, _), ForEachChild(_, _, _, _, _)

\* A traversal that drops a bookmark whose url was already emitted.
traverseDedup(node, folderPath, foundProfile, items) ==
    IF node.t \in {"null", "undefined"}
    THEN Throw(<<"Cannot read properties of ", node.t, " (reading 'type')">>)
    ELSE IF Get(node, "type") = S("url") /\ Truthy(Get(node, "url"))
    THEN IF \E k \in DOMAIN items : items[k].url = Get(node, "url")
         THEN NoThrow(items)
         ELSE NoThrow(Append(items, Item(node, folderPath, foundProfile)))
    ELSE IF Truthy(Get(node, "children"))
    THEN IF Get(node, "children").t # "arr"
         THEN Throw(<<"node.children.forEach is not a function">>)
         ELSE ForEachChild(Get(node, "children").a, 1, NewPath(folderPath, node),
                           foundProfile, items)
    ELSE NoThrow(items)

\* traverse(node, folderPath) with `items` threaded through: the items after
\* the call, or the TypeError it throws.
traverse(node, folderPath, foundProfile, items) ==
    IF node.t \in {"null", "undefined"}
    THEN Throw(<<"Cannot read properties of ", node.t, " (reading 'type')">>)
    ELSE IF Get(node, "type") = S("url") /\ Truthy(Get(node, "url"))
    THEN NoThrow(Append(items, Item(node, folderPath, foundProfile)))
    ELSE IF Truthy(Get(node, "children"))
    THEN IF Get(node, "children").t # "arr"
         THEN Throw(<<"node.children.forEach is not a function">>)
         ELSE ForEachChild(Get(node, "children").a, 1, NewPath(folderPath, node),
                           foundProfile, items)
    ELSE NoThrow(items)

\* A forEach that visits the children last to first.
RECURSIVE ForEachChildReversed(_, _, _, _, _)
ForEachChildReversed(children, k, newPath, foundProfile, items) ==
    IF k > Len(children) THEN NoThrow(items)
    ELSE LET r == traverse(children[Len(children) + 1 - k], newPath, foundProfile, items)
         IN  IF r.threw THEN r
             ELSE ForEachChildReversed(children, k + 1, newPath, foundProfile, r.items)

\* node.children.forEach((child) => traverse(child, newPath)) from child k on.
ForEachChild(children, k, newPath, foundProfile, items) ==
    IF k > Len(children) THEN NoThrow(items)
    ELSE LET r == traverse(children[k], newPath, foundProfile, items)
         IN  IF r.threw THEN r
             ELSE ForEachChild(children, k + 1, newPath, foundProfile, r.items)

\* A flattening that reads json.roots.bookmark_bar without the optional chain.
FlattenStrict(json, foundProfile) ==
    IF json.t = "null" \/ Get(json, "roots").t \in {"null", "undefined"}
    THEN Throw(<<"Cannot read properties of undefined (reading 'bookmark_bar')">>)
    ELSE ForEachChild(Roots(json), 1, <<>>, foundProfile, <<>>)

\* roots.forEach((root) => traverse(root, ""))
Flatten(json, foundProfile) ==
    IF json.t = "null"
    THEN Throw(<<"Cannot read properties of null (reading 'roots')">>)
    ELSE ForEachChild(Roots(json), 1, <<>>, foundProfile, <<>>)

(***************************************************************************)
(* Configuration and the candidate paths (Step 1).                          *)
(***************************************************************************)
BrowserType == {"chrome", "edge"}

BROWSERS ==
    [chrome |-> [name |-> "Google Chrome",
                 macPathPrefix |-> <<"Google", "Chrome">>,
                 winPathCandidates |-> << <<"Google", "Chrome", "User Data">> >>],
     edge   |-> [name |-> "Microsoft Edge",
                 macPathPrefix |-> <<"Microsoft Edge">>,
                 winPathCandidates |-> << <<"Microsoft", "Edge", "User Data">> >>]]

PROFILES_TO_CHECK == <<"Default", "Profile 1", "Profile 2", "Profile 3">>

\* os.homedir(), as path segments.
HomeDir == <<"~">>

\* process.env.LOCALAPPDATA || path.join(homeDir, "AppData", "Local")
LocalAppDataDir(lad) ==
    IF lad # <<>> THEN lad ELSE HomeDir \o <<"AppData", "Local">>

\* candidateBasePaths for a browser on a host.
CandidateBasePaths(b, plat, lad) ==
    IF plat = "darwin"
    THEN << HomeDir \o <<"Library", "Application Support">> \o BROWSERS[b].macPathPrefix >>
    ELSE [k \in 1..Len(BROWSERS[b].winPathCandidates) |->
             LocalAppDataDir(lad) \o BROWSERS[b].winPathCandidates[k]]

\* path.join(basePath, profile, "Bookmarks")
CheckPath(basePath, profile) == basePath \o <<profile, "Bookmarks">>

(***************************************************************************)
(* The file system.  An entry says what fs.access and fs.readFile do on    *)
(* the path: "absent" (no such file), "denied" (access itself fails: the   *)
(* directory cannot be searched), "ok" (readable, with its text), or the   *)
(* error code with which reading an existing file fails.                    *)
(***************************************************************************)
Absent == [st |-> "absent", data |-> <<>>]
File(st, data) == [st |-> st, data |-> data]

\* await fs.access(checkPath) resolves (TRUE) or rejects (FALSE).
Accessible(files, path) == files[path].st \notin {"absent", "denied"}

\* The message of the error fs.readFile rejects with.
ReadErrorMsg(st, path) ==
    CASE st = "EACCES" -> <<"EACCES", ": permission denied, open '">> \o path \o <<"'">>
      [] st = "EPERM"  -> <<"EPERM", ": operation not permitted, open '">> \o path \o <<"'">>
      [] OTHER         -> <<st, ": illegal operation on a directory, read">>

\* The message of the Error thrown when no candidate was found.
NotFoundMsg(b, plat) ==
    LET osMsg == IF plat = "darwin" THEN <<"Full Disk Access", " permission">>
                 ELSE <<"installation path">>
    IN  <<"Could not find ", BROWSERS[b].name,
          " bookmarks. Please check if installed or Raycast has ">> \o osMsg \o <<".">>

\* A test that looks for the operating system's error codes only.
IsPermissionMsgCodesOnly(msg) ==
    \/ Includes(msg, "EPERM")
    \/ Includes(msg, "EACCES")
    \/ Includes(msg, "Operation not permitted")

\* The test of the catch block that selects the permission branch.
IsPermissionMsg(msg) ==
    \/ Includes(msg, "EPERM")
    \/ Includes(msg, "EACCES")
    \/ Includes(msg, "Operation not permitted")
    \/ Includes(msg, "Full Disk Access")

\* error === null
NoError == <<>>

(***************************************************************************)
(* fetchBookmarks.  One record per invocation: the browser it was issued   *)
(* for, where it stands (awaiting fs.access of candidate (i, j), awaiting  *)
(* fs.readFile, or done), its local variables, and how it ended.            *)
(***************************************************************************)
NewFetch(b, plat, lad) ==
    [browser |-> b, pc |-> "access",
     bases |-> CandidateBasePaths(b, plat, lad), i |-> 1, j |-> 1,
     foundPath |-> <<>>, foundProfile |-> "", outcome |-> "pending"]

\* A catch block with no finally after it: loading is never cleared.
CatchWithoutFinally(f, kind, msg) ==
    /\ error' = msg
    /\ permissionIssue' = (IsPermissionMsg(msg) \/ permissionIssue)
    /\ toast' = IF IsPermissionMsg(msg) THEN "Permission Error" ELSE "Error"
    /\ fetches' = [fetches EXCEPT ![f].pc = "done", ![f].outcome = kind]
    /\ UNCHANGED <<platform, localAppData, fs, selectedBrowser, bookmarks, isLoading>>

\* The catch block and the finally block, for fetch f ending with `kind`.
\* Everything thrown in the try block is an Error, so msg is its message.
Catch(f, kind, msg) ==
    /\ error' = msg
    /\ permissionIssue' = (IsPermissionMsg(msg) \/ permissionIssue)
    /\ toast' = IF IsPermissionMsg(msg) THEN "Permission Error" ELSE "Error"
    /\ isLoading' = FALSE
    /\ fetches' = [fetches EXCEPT ![f].pc = "done", ![f].outcome = kind]
    /\ UNCHANGED <<platform, localAppData, fs, selectedBrowser, bookmarks>>

\* setBookmarks(items) and the finally block.
Succeed(f, items) ==
    /\ bookmarks' = items
    /\ isLoading' = FALSE
    /\ fetches' = [fetches EXCEPT ![f].pc = "done", ![f].outcome = "ok"]
    /\ UNCHANGED <<platform, localAppData, fs, selectedBrowser, error,
                   permissionIssue, toast>>

\* A scan whose fs.access is not guarded: the first rejection ends it.
AccessStepUnguarded(f) ==
    /\ f \in DOMAIN fetches
    /\ fetches[f].pc = "access"
    /\ LET F == fetches[f]
           profile == PROFILES_TO_CHECK[F.j]
           checkPath == CheckPath(F.bases[F.i], profile)
       IN  IF Accessible(fs, checkPath)
           THEN /\ fetches' = [fetches EXCEPT ![f].pc = "read",
                                              ![f].foundPath = checkPath,
                                              ![f].foundProfile = profile]
                /\ UNCHANGED <<platform, localAppData, fs, selectedBrowser, bookmarks,
                               isLoading, error, permissionIssue, toast>>
           ELSE Catch(f, "NotFound", NotFoundMsg(F.browser, platform))

\* Step 2, one iteration: await fs.access(checkPath) settles for candidate
\* (i, j) of fetch f; on exhaustion the NotFound error is thrown and caught.
AccessStep(f) ==
    /\ f \in DOMAIN fetches
    /\ fetches[f].pc = "access"
    /\ LET F == fetches[f]
           profile == PROFILES_TO_CHECK[F.j]
           checkPath == CheckPath(F.bases[F.i], profile)
       IN  IF Accessible(fs, checkPath)
           THEN /\ fetches' = [fetches EXCEPT ![f].pc = "read",
                                              ![f].foundPath = checkPath,
                                              ![f].foundProfile = profile]
                /\ UNCHANGED <<platform, localAppData, fs, selectedBrowser, bookmarks,
                               isLoading, error, permissionIssue, toast>>
           ELSE IF F.j < Len(PROFILES_TO_CHECK)
           THEN /\ fetches' = [fetches EXCEPT ![f].j = F.j + 1]
                /\ UNCHANGED <<platform, localAppData, fs, selectedBrowser, bookmarks,
                               isLoading, error, permissionIssue, toast>>
           ELSE IF F.i < Len(F.bases)
           THEN /\ fetches' = [fetches EXCEPT ![f].i = F.i + 1, ![f].j = 1]
                /\ UNCHANGED <<platform, localAppData, fs, selectedBrowser, bookmarks,
                               isLoading, error, permissionIssue, toast>>
           ELSE Catch(f, "NotFound", NotFoundMsg(F.browser, platform))

\* Step 3: await fs.readFile(foundPath) settles for fetch f, then the parse,
\* the traversal and setBookmarks run without yielding.
ReadStep(f) ==
    /\ f \in DOMAIN fetches
    /\ fetches[f].pc = "read"
    /\ LET F == fetches[f]
           entry == fs[F.foundPath]
       IN  IF entry.st # "ok"
           THEN Catch(f, "ReadFailed", ReadErrorMsg(entry.st, F.foundPath))
           ELSE LET parsed == JSONparse(entry.data) IN
                IF parsed.threw
                THEN Catch(f, "ParseFailed", parsed.msg)
                ELSE LET flat == Flatten(parsed.val, F.foundProfile) IN
                     IF flat.threw
                     THEN Catch(f, "TraverseFailed", flat.msg)
                     ELSE Succeed(f, flat.items)

\* The dropdown's onChange with a new value: setSelectedBrowser(b), the
\* re-render, and the effect, which calls fetchBookmarks up to its first await.
SelectBrowser(b) ==
    /\ b # selectedBrowser
    /\ Len(fetches) < MaxFetches
    /\ selectedBrowser' = b
    /\ isLoading' = TRUE
    /\ error' = NoError
    /\ permissionIssue' = FALSE
    /\ bookmarks' = <<>>
    /\ fetches' = Append(fetches, NewFetch(b, platform, localAppData))
    /\ UNCHANGED <<platform, localAppData, fs, toast>>

\* The same, by a user who waits for the running fetch to finish.
SelectWhenIdle(b) ==
    /\ \A f \in DOMAIN fetches : fetches[f].pc = "done"
    /\ SelectBrowser(b)

(***************************************************************************)
(* Bookmark documents: the inputs the file may hold.                        *)
(***************************************************************************)
BookmarkUrl == "https://example.com"

\* A node of type "url" (interface BookmarkNode); an empty url is one the
\* format does not allow, and is generated to cover the code's `&& node.url`.
Leaf(id, url) ==
    Obj([id |-> S(id), name |-> S("Example"), type |-> S("url"), url |-> S(url)])

\* A node of type "folder".
Folder(name, children) ==
    Obj([name |-> S(name), type |-> S("folder"), children |-> Arr(children)])

Leaves == {Leaf("1", BookmarkUrl), Leaf("2", BookmarkUrl), Leaf("3", "")}

\* The names of the root containers and of the folders at each depth.
RootNames == <<"Bar", "Other", "Synced">>
FolderNames == <<"Work", "Docs", "Notes", "Archive", "Misc", "Old">>
FolderName(d) == FolderNames[((d - 1) % Len(FolderNames)) + 1]

RECURSIVE TreesOf(_, _), ForestsOf(_, _)
\* The trees of exactly n nodes whose top is at depth d.
TreesOf(n, d) ==
    (IF n = 1 THEN Leaves ELSE {})
    \cup {Folder(FolderName(d), ch) : ch \in ForestsOf(n - 1, d + 1)}
\* The children lists of exactly n nodes in all, at depth d.
ForestsOf(n, d) ==
    IF n = 0 THEN {<<>>}
    ELSE UNION {LET first == TreesOf(k, d)
                    rest == ForestsOf(n - k, d)
                IN  {<<t>> \o f : t \in first, f \in rest} : k \in 1..n}

\* The children lists a root container may hold, by their number of nodes.
ForestsByCount == [n \in 0..MaxNodes |-> ForestsOf(n, 1)]

\* Root container k over exactly n nodes; with none it may also be absent.
RootOptions(n, k) ==
    (IF n = 0 THEN {Undefined} ELSE {})
    \cup {Folder(RootNames[k], f) : f \in ForestsByCount[n]}

\* {"roots": {...}} holding the root containers that are present.
Document(rs) ==
    LET present == {k \in 1..Len(RootKeys) : rs[k] # Undefined}
        keyOf == [k \in present |-> RootKeys[k]]
    IN  Obj([roots |-> Obj([key \in {keyOf[k] : k \in present} |->
                               rs[CHOOSE k \in present : keyOf[k] = key]])])

\* How at most n nodes may be shared out among the three root containers.
RootSizes(n) == {z \in [1..3 -> 0..n] : z[1] + z[2] + z[3] <= n}

\* The well-formed documents of at most n nodes below the roots.
Documents(n) ==
    UNION {LET bs == RootOptions(sz[1], 1)
               os == RootOptions(sz[2], 2)
               ss == RootOptions(sz[3], 3)
           IN  {Document(<<b, o, s>>) : b \in bs, o \in os, s \in ss} :
           sz \in RootSizes(n)}

\* Valid JSON that is no bookmark document: no roots member, or null.
RootlessDocuments ==
    {Obj(<<>>), Obj([version |-> S("1")]), Obj([roots |-> Null]), Null}

\* JSON.stringify, to tokens, with the members in the file's key order.
KeyOrder == <<"checksum", "roots", "version", "bookmark_bar", "other", "synced",
              "children", "id", "name", "type", "url">>

RECURSIVE Serialize(_), SerializeElements(_, _), SerializeMembers(_, _, _)
Serialize(v) ==
    CASE v.t = "str" -> <<StrTok(v.s)>>
      [] v.t = "arr" -> <<P("[")>> \o SerializeElements(v.a, 1) \o <<P("]")>>
      [] v.t = "obj" ->
           <<P("{")>>
           \o SerializeMembers(v.o, SelectSeq(KeyOrder, LAMBDA key : key \in DOMAIN v.o), 1)
           \o <<P("}")>>
      [] OTHER -> <<NullTok>>
SerializeElements(a, k) ==
    IF k > Len(a) THEN <<>>
    ELSE Serialize(a[k]) \o (IF k < Len(a) THEN <<P(",")>> ELSE <<>>)
         \o SerializeElements(a, k + 1)
SerializeMembers(o, keys, k) ==
    IF k > Len(keys) THEN <<>>
    ELSE <<StrTok(keys[k]), P(":")>> \o Serialize(o[keys[k]])
         \o (IF k < Len(keys) THEN <<P(",")>> ELSE <<>>)
         \o SerializeMembers(o, keys, k + 1)

\* Texts that are not JSON: the empty file, and a small document's text cut
\* short or followed by a stray brace.
BrokenTexts ==
    {<<>>}
    \cup {SubSeq(Serialize(d), 1, Len(Serialize(d)) - 1) : d \in Documents(1)}
    \cup {Serialize(d) \o <<P("}")>> : d \in Documents(1)}

\* Texts of valid JSON that is no bookmark document, and texts that are not JSON.
OddTexts == {Serialize(d) : d \in RootlessDocuments} \cup BrokenTexts

(***************************************************************************)
(* Hosts and file systems the command may start on.                         *)
(***************************************************************************)
Hosts ==
    {[platform |-> "darwin", lad |-> <<>>],
     [platform |-> "win32", lad |-> <<>>],
     [platform |-> "win32", lad |-> <<"D:", "LocalAppData">>]}

\* Candidate (i, j) of browser b on host h.
CandidatePath(b, h, i, j) ==
    CheckPath(CandidateBasePaths(b, h.platform, h.lad)[i], PROFILES_TO_CHECK[j])

\* Every path the command may probe on host h.
AllPaths(h) ==
    UNION {{CandidatePath(b, h, i, j) :
                i \in 1..Len(CandidateBasePaths(b, h.platform, h.lad)),
                j \in 1..Len(PROFILES_TO_CHECK)} : b \in BrowserType}

\* A bookmark file with a bookmark on the bar and one in a folder.
SampleText ==
    Serialize(Document(<<Folder("Bar", <<Leaf("1", BookmarkUrl),
                                         Folder("Work", <<Leaf("2", BookmarkUrl)>>)>>),
                         Undefined, Undefined>>))

\* Sessions: each browser has at most one Bookmarks file, in the first or the
\* last profile: readable, unreadable, or holding text cut short.
SessionEntries ==
    {File("ok", SampleText), File("EACCES", <<>>), File("EISDIR", <<>>),
     File("ok", SubSeq(SampleText, 1, Len(SampleText) - 1))}
SessionPlacements ==
    {[j |-> 0, entry |-> Absent]}
    \cup {[j |-> j, entry |-> e] : j \in {1, Len(PROFILES_TO_CHECK)}, e \in SessionEntries}
SessionFileSystems(h) ==
    {[p \in AllPaths(h) |->
         IF \E b \in BrowserType : c[b].j # 0 /\ p = CandidatePath(b, h, 1, c[b].j)
         THEN (LET b == CHOOSE b \in BrowserType :
                            c[b].j # 0 /\ p = CandidatePath(b, h, 1, c[b].j)
               IN  c[b].entry)
         ELSE Absent] : c \in [BrowserType -> SessionPlacements]}

\* Locating: every pattern of absent, readable and inaccessible candidates
\* for Chrome, and of absent and readable ones for Edge.
LocateFileSystems(h) ==
    {f \in [AllPaths(h) -> {Absent, File("ok", SampleText), File("denied", <<>>)}] :
        \A j \in 1..Len(PROFILES_TO_CHECK) :
            f[CandidatePath("edge", h, 1, j)].st # "denied"}

\* Flattening: Chrome's Default profile holds the text, nothing else exists.
FlattenFileSystem(h, text) ==
    [p \in AllPaths(h) |->
        IF p = CandidatePath("chrome", h, 1, 1) THEN File("ok", text) ELSE Absent]

(***************************************************************************)
(* Specifications.  The initial state is the one after mount: the state    *)
(* hooks hold their initial values and the effect has called               *)
(* fetchBookmarks for "chrome", which stands at its first await.            *)
(***************************************************************************)
InitWith(h, files) ==
    /\ platform = h.platform
    /\ localAppData = h.lad
    /\ fs = files
    /\ selectedBrowser = "chrome"
    /\ bookmarks = <<>>
    /\ isLoading = TRUE
    /\ error = NoError
    /\ permissionIssue = FALSE
    /\ toast = "none"
    /\ fetches = <<NewFetch("chrome", h.platform, h.lad)>>

Init == \E h \in Hosts : \E files \in SessionFileSystems(h) : InitWith(h, files)

InitLocate == \E h \in Hosts : \E files \in LocateFileSystems(h) : InitWith(h, files)

InitFlatten ==
    \E h \in {g \in Hosts : g.platform = "darwin"} :
        \/ \E sz \in RootSizes(MaxNodes) :
             \E b \in RootOptions(sz[1], 1) :
               \E o \in RootOptions(sz[2], 2) :
                 \E s \in RootOptions(sz[3], 3) :
                   InitWith(h, FlattenFileSystem(h, Serialize(Document(<<b, o, s>>))))
        \/ \E text \in OddTexts : InitWith(h, FlattenFileSystem(h, text))

\* Selections may change while fetches are in flight.
Next ==
    \/ \E b \in BrowserType : SelectBrowser(b)
    \/ \E f \in DOMAIN fetches : AccessStep(f)
    \/ \E f \in DOMAIN fetches : ReadStep(f)

\* Selections change only between fetches.
NextSeq ==
    \/ \E b \in BrowserType : SelectWhenIdle(b)
    \/ \E f \in DOMAIN fetches : AccessStep(f)
    \/ \E f \in DOMAIN fetches : ReadStep(f)

\* One invocation, no selection change.
NextSingle ==
    \/ \E f \in DOMAIN fetches : AccessStep(f)
    \/ \E f \in DOMAIN fetches : ReadStep(f)

Spec == Init /\ [][Next]_vars
SpecLocate == InitLocate /\ [][NextSeq]_vars
SpecFlatten == InitFlatten /\ [][NextSingle]_vars

(***************************************************************************)
(* Reference definitions for the properties: the bookmark tree seen by     *)
(* address.  <<k, c1, ..., cn>> is child cn of ... of child c1 of root     *)
(* container k.                                                             *)
(***************************************************************************)
Done(f) == f \in DOMAIN fetches /\ fetches[f].pc = "done"
Completes(f) ==
    f \in DOMAIN fetches /\ fetches[f].pc # "done" /\ fetches'[f].pc = "done"

\* The text of the file fetch f found, and what it parses to.
TextOf(f) == fs[fetches[f].foundPath].data
ReadsText(f) ==
    Done(f) /\ fetches[f].foundPath # <<>> /\ fs[fetches[f].foundPath].st = "ok"

IsObj(v) == v.t = "obj"
HasRoots(json) == IsObj(json) /\ IsObj(Get(json, "roots"))
PresentRoots(json) ==
    IF HasRoots(json)
    THEN {k \in 1..Len(RootKeys) : RootKeys[k] \in DOMAIN Get(json, "roots").o}
    ELSE {}
RootAt(json, k) == Get(json, "roots").o[RootKeys[k]]
ChildrenOf(node) ==
    IF Get(node, "children").t = "arr" THEN Get(node, "children").a ELSE <<>>

RECURSIVE NodeAtFrom(_, _, _)
NodeAtFrom(node, addr, k) ==
    IF k > Len(addr) THEN node ELSE NodeAtFrom(ChildrenOf(node)[addr[k]], addr, k + 1)
NodeAt(json, addr) == NodeAtFrom(RootAt(json, addr[1]), addr, 2)

RECURSIVE AddrsUnder(_, _)
\* The addresses of the nodes of the tree at addr.
AddrsUnder(node, addr) ==
    {addr} \cup UNION {AddrsUnder(ChildrenOf(node)[c], Append(addr, c)) :
                          c \in 1..Len(ChildrenOf(node))}
Addrs(json) == UNION {AddrsUnder(RootAt(json, k), <<k>>) : k \in PresentRoots(json)}

IsUrlNode(node) == Get(node, "type") = S("url")
UrlAddrs(json) == {a \in Addrs(json) : IsUrlNode(NodeAt(json, a))}

\* The data model's invariant: a url node has a url and no children, a
\* folder has children and no url.
ValidNode(node) ==
    \/ /\ IsUrlNode(node)
       /\ Get(node, "url").t = "str" /\ Get(node, "url").s # ""
       /\ Get(node, "children") = Undefined
    \/ /\ Get(node, "type") = S("folder")
       /\ Get(node, "children").t = "arr"
       /\ Get(node, "url") = Undefined
ValidTree(json) == HasRoots(json) /\ \A a \in Addrs(json) : ValidNode(NodeAt(json, a))

\* Document order of addresses.
Before(a, b) ==
    \E k \in 1..Len(a) :
        /\ k <= Len(b)
        /\ \A m \in 1..(k - 1) : a[m] = b[m]
        /\ a[k] < b[k]
RECURSIVE InOrder(_)
InOrder(as) ==
    IF as = {} THEN <<>>
    ELSE LET first == CHOOSE a \in as : \A b \in as \ {a} : Before(a, b)
         IN  <<first>> \o InOrder(as \ {first})

\* The ' / '-join of names.
RECURSIVE Join(_)
Join(names) ==
    IF names = <<>> THEN <<>>
    ELSE IF Len(names) = 1 THEN Str(names[1])
    ELSE Str(names[1]) \o <<" / ">> \o Join(Tail(names))

\* The names of the folders above the node at addr, the root container's left out.
AncestorNames(json, addr) ==
    [k \in 1..(Len(addr) - 2) |-> Get(NodeAt(json, SubSeq(addr, 1, k + 1)), "name").s]

\* The names of all the folders above the node at addr, root container first.
ContainerNames(json, addr) ==
    [k \in 1..(Len(addr) - 1) |-> Get(NodeAt(json, SubSeq(addr, 1, k)), "name").s]

(***************************************************************************)
(* Properties of the flattening (SpecFlatten).                              *)
(***************************************************************************)
\* C1 as stated: every emitted bookmark's folder path is the ' / '-join of
\* the names of its ancestor folders with the root container's own name left
\* out: "" for a direct child of a root, "Work / Docs" under Bar > Work > Docs.
C1_PathExcludesRootName ==
    \A f \in DOMAIN fetches :
        (ReadsText(f) /\ fetches[f].outcome = "ok" /\ ~JSONparse(TextOf(f)).threw) =>
            LET json == JSONparse(TextOf(f)).val
                order == InOrder({a \in UrlAddrs(json) : Truthy(Get(NodeAt(json, a), "url"))})
            IN  \A n \in DOMAIN bookmarks :
                    n <= Len(order) => bookmarks[n].path = Join(AncestorNames(json, order[n]))

\* C1, amended: every emitted bookmark's folder path is the ' / '-join of the
\* names of all the folders above it, the root container's own name first:
\* "Bar" for a direct child of root Bar, "Bar / Work / Docs" under
\* Bar > Work > Docs.
C1_PathStartsAtRootName ==
    \A f \in DOMAIN fetches :
        (ReadsText(f) /\ fetches[f].outcome = "ok" /\ ~JSONparse(TextOf(f)).threw) =>
            LET json == JSONparse(TextOf(f)).val
                order == InOrder({a \in UrlAddrs(json) : Truthy(Get(NodeAt(json, a), "url"))})
            IN  /\ Len(bookmarks) = Len(order)
                /\ \A n \in DOMAIN bookmarks :
                       bookmarks[n].path = Join(ContainerNames(json, order[n]))

\* A bookmark two folders deep on the bar.
C1_Witness ==
    /\ Done(1) /\ fetches[1].outcome = "ok"
    /\ \E n \in DOMAIN bookmarks :
           bookmarks[n].path = <<"Bar", " / ", "Work", " / ", "Docs">>

\* C4: for a valid bookmark tree the number of emitted records is the number
\* of url-typed nodes reachable from the roots that are present; the same
\* url under several folders yields one record per occurrence.
C4_OneRecordPerUrlNode ==
    \A f \in DOMAIN fetches :
        (ReadsText(f) /\ ~JSONparse(TextOf(f)).threw
         /\ ValidTree(JSONparse(TextOf(f)).val)) =>
            /\ fetches[f].outcome = "ok"
            /\ Len(bookmarks) = Cardinality(UrlAddrs(JSONparse(TextOf(f)).val))

C4_Witness ==
    /\ Done(1) /\ fetches[1].outcome = "ok"
    /\ ValidTree(JSONparse(TextOf(1)).val)
    /\ \E m, n \in DOMAIN bookmarks :
           /\ m < n
           /\ bookmarks[m].url = bookmarks[n].url
           /\ bookmarks[m].id = bookmarks[n].id
           /\ bookmarks[m].path # bookmarks[n].path

\* C5: the emitted list is in root order (bookmark_bar, other, synced) and,
\* within a root, in depth-first pre-order with the children in their listed
\* order: record n is the n-th emitted node in document order.
C5_DocumentOrder ==
    \A f \in DOMAIN fetches :
        (ReadsText(f) /\ fetches[f].outcome = "ok" /\ ~JSONparse(TextOf(f)).threw) =>
            LET json == JSONparse(TextOf(f)).val
                order == InOrder({a \in UrlAddrs(json) : Truthy(Get(NodeAt(json, a), "url"))})
            IN  /\ Len(bookmarks) = Len(order)
                /\ \A n \in DOMAIN bookmarks :
                       /\ bookmarks[n].id = Get(NodeAt(json, order[n]), "id")
                       /\ bookmarks[n].title = Get(NodeAt(json, order[n]), "name")
                       /\ bookmarks[n].url = Get(NodeAt(json, order[n]), "url")
                       /\ bookmarks[n].source = fetches[f].foundProfile

\* A bookmark in a folder is listed before the bookmark that follows the folder.
C5_Witness ==
    /\ Done(1) /\ fetches[1].outcome = "ok"
    /\ Len(bookmarks) = 2
    /\ bookmarks[1].id = S("2") /\ bookmarks[1].path = <<"Bar", " / ", "Work">>
    /\ bookmarks[2].id = S("1") /\ bookmarks[2].path = <<"Bar">>

\* C6 as stated: flattening fails, with an error reported and no records,
\* when the text is not valid JSON or the parsed document has no roots
\* object at all.
C6_FailsWithoutRoots ==
    \A f \in DOMAIN fetches :
        (ReadsText(f)
         /\ (TextOf(f) \in BrokenTexts \/ ~HasRoots(JSONparse(TextOf(f)).val))) =>
            /\ fetches[f].outcome # "ok"
            /\ error # NoError
            /\ bookmarks = <<>>

\* C6, amended: flattening fails, with an error reported and no records,
\* when the text is not valid JSON; a JSON object with no roots object
\* succeeds with no records and no error; a document whose roots object
\* lacks some of bookmark_bar, other, synced succeeds with the records of
\* the roots that are present.
C6_FailsOnlyOnBadJson ==
    \A f \in DOMAIN fetches :
        ReadsText(f) =>
            LET parsed == JSONparse(TextOf(f)) IN
            /\ TextOf(f) \in BrokenTexts =>
                   /\ parsed.threw
                   /\ fetches[f].outcome = "ParseFailed"
                   /\ error # NoError
                   /\ bookmarks = <<>>
            /\ TextOf(f) \notin BrokenTexts =>
                   /\ ~parsed.threw
                   /\ Serialize(parsed.val) = TextOf(f)
            /\ (~parsed.threw /\ IsObj(parsed.val) /\ ~HasRoots(parsed.val)) =>
                   /\ fetches[f].outcome = "ok"
                   /\ error = NoError
                   /\ bookmarks = <<>>
            /\ (~parsed.threw /\ HasRoots(parsed.val)) =>
                   /\ fetches[f].outcome = "ok"
                   /\ error = NoError
                   /\ Len(bookmarks) =
                          Cardinality({a \in UrlAddrs(parsed.val) :
                                          Truthy(Get(NodeAt(parsed.val, a), "url"))})

\* The file holds {} : no roots, and the command shows an empty list.
C6_Witness ==
    /\ Done(1)
    /\ fs[fetches[1].foundPath].st = "ok"
    /\ TextOf(1) = <<P("{"), P("}")>>
    /\ fetches[1].outcome = "ok"
    /\ error = NoError
    /\ bookmarks = <<>>

(***************************************************************************)
(* Properties of the locator (SpecLocate).                                  *)
(***************************************************************************)
\* The candidates of fetch f, as (base, profile) index pairs, in scan order.
Candidates(f) ==
    {<<i, j>> : i \in 1..Len(CandidateBasePaths(fetches[f].browser, platform, localAppData)),
                j \in 1..Len(PROFILES_TO_CHECK)}
PathOfCandidate(f, c) ==
    CandidateBasePaths(fetches[f].browser, platform, localAppData)[c[1]]
        \o <<PROFILES_TO_CHECK[c[2]], "Bookmarks">>
AccessibleCandidates(f) == {c \in Candidates(f) : Accessible(fs, PathOfCandidate(f, c))}
Earlier(c, d) == c[1] < d[1] \/ (c[1] = d[1] /\ c[2] < d[2])

\* C3: the locator's result is the first accessible candidate, base
\* directories outer and profiles inner, with that profile's label; it
\* reports NotFound exactly when no candidate is accessible, and an
\* inaccessible candidate only moves the scan on.
C3_FirstAccessibleCandidate ==
    \A f \in DOMAIN fetches :
        /\ fetches[f].pc = "access" =>
               /\ fetches[f].outcome = "pending"
               /\ \A c \in AccessibleCandidates(f) :
                      ~Earlier(c, <<fetches[f].i, fetches[f].j>>)
        /\ fetches[f].pc \in {"read", "done"} =>
               IF AccessibleCandidates(f) = {}
               THEN /\ fetches[f].outcome = "NotFound"
                    /\ fetches[f].foundPath = <<>>
               ELSE LET first == CHOOSE c \in AccessibleCandidates(f) :
                                     \A d \in AccessibleCandidates(f) \ {c} : Earlier(c, d)
                    IN  /\ fetches[f].outcome # "NotFound"
                        /\ fetches[f].foundPath = PathOfCandidate(f, first)
                        /\ fetches[f].foundProfile = PROFILES_TO_CHECK[first[2]]

\* Edge's file is found in Profile 2, and Chrome's behind an inaccessible
\* Default profile.
C3_Witness ==
    \E f, g \in DOMAIN fetches :
        /\ Done(f) /\ fetches[f].browser = "edge"
        /\ fetches[f].foundProfile = "Profile 2"
        /\ Done(g) /\ fetches[g].browser = "chrome"
        /\ fetches[g].foundProfile = "Profile 1"
        /\ fs[CheckPath(fetches[g].bases[1], "Default")].st = "denied"

(***************************************************************************)
(* Properties of sessions with selection changes (Spec).                    *)
(***************************************************************************)
\* The fetch issued for the current selection is the last one issued.
Current == Len(fetches)
Failed(f) == fetches[f].outcome \notin {"pending", "ok"}
\* Fetch f found a file and reading it failed with a permission error code.
ReadDenied(f) ==
    /\ fetches[f].outcome = "ReadFailed"
    /\ fs[fetches[f].foundPath].st \in {"EACCES", "EPERM"}

\* C2: the completion of a fetch issued for an earlier selection leaves the
\* displayed bookmarks, error and permission flag alone: only the fetch
\* issued for the current selection writes them.
C2_StaleCompletionIgnored ==
    [][\A f \in DOMAIN fetches :
           (Completes(f) /\ f # Current) =>
               UNCHANGED <<bookmarks, error, permissionIssue>>]_vars

\* C7: whenever an error is set, the bookmark list is empty.
C7_ErrorMeansNoBookmarks == error # NoError => bookmarks = <<>>

\* C8 as stated: a failing fetch reports the permission state only when it
\* found a file whose read failed with a permission signal; NotFound is
\* never classified as PermissionDenied.
C8_PermissionOnlyForDeniedRead ==
    [][\A f \in DOMAIN fetches :
           (Completes(f) /\ Failed(f)') =>
               /\ (toast' = "Permission Error" \/ (permissionIssue' /\ ~permissionIssue))
                      => ReadDenied(f)'
               /\ fetches'[f].outcome = "NotFound" => toast' # "Permission Error"]_vars

\* C8, amended: a failing fetch reports the permission state (sets the
\* flag, shows the Permission Error toast) exactly when it found a file
\* whose read failed with a permission signal, or when it found no file on
\* macOS, where the NotFound message carries the Full Disk Access hint; a
\* NotFound on another platform is reported as a plain error and leaves the
\* permission flag as it was.
C8_PermissionClassification ==
    [][\A f \in DOMAIN fetches :
           (Completes(f) /\ Failed(f)') =>
               IF ReadDenied(f)' \/ (fetches'[f].outcome = "NotFound" /\ platform = "darwin")
               THEN permissionIssue' /\ toast' = "Permission Error"
               ELSE permissionIssue' = permissionIssue /\ toast' = "Error"]_vars

\* No file was found on macOS, and the permission state is shown.
C8_Witness ==
    /\ platform = "darwin"
    /\ Done(Current) /\ fetches[Current].outcome = "NotFound"
    /\ permissionIssue /\ toast = "Permission Error"
    /\ \E f \in DOMAIN fetches : f # Current /\ Done(f) /\ ReadDenied(f)

C10_NotLoadingMeansIdle == ~isLoading => \A f \in DOMAIN fetches : Done(f)

====
